---- MODULE Spec2Model ----
(***************************************************************************)
(* A model of src/viggle.py: the ViggleIE extractor.                       *)
(*                                                                         *)
(* Strings are sequences of symbols.  A symbol is either one of the        *)
(* characters the code inspects ("." "_" "[" "]" " " "<" ...) or an atom    *)
(* standing for a run of characters none of which the code inspects        *)
(* ("a", "result", "http", ".png", ...).  String operations of the code    *)
(* (concatenation, replace, lower, endswith, regular-expression match) are *)
(* computed on these sequences.                                            *)
(*                                                                         *)
(* JSON values are records tagged by t: "dict" (items: a sequence of       *)
(* [k, v] entries in document order, with distinct keys), "list" (items),  *)
(* "str" (s), "num" and "null".                                            *)
(***************************************************************************)
EXTENDS Integers, Sequences, FiniteSets, TLC

VARIABLES
    \* ---- _real_extract ----
    pc,             \* position in _real_extract
    json_data,      \* the `data` member of the API response
    data,           \* local `data`
    url_list,       \* local `url_list`: sequence of <<key_path, url>>
    idx,            \* position of the loop of line 131 in url_list
    processed_urls, \* local `processed_urls`
    formats,        \* local `formats`
    probe_log,      \* the probe invocations so far: [url, outcome]
    warnings,       \* URLs a warning was reported for, in order
    result,         \* the returned info dict, or NoResult
    \* ---- _collect_urls called on its own ----
    obj,            \* the JSON value handed to _collect_urls
    out,            \* its `out` list
    collected,      \* whether the call has happened
    \* ---- _choose_extension_from_ffprobe called on its own ----
    info,           \* probe output handed to it
    vcodec, acodec, \* codec arguments
    media_url,      \* URL argument
    ext             \* the value returned, or NoResult

vars == <<pc, json_data, data, url_list, idx, processed_urls, formats,
          probe_log, warnings, result, obj, out, collected,
          info, vcodec, acodec, media_url, ext>>

extractVars == <<pc, json_data, data, url_list, idx, processed_urls, formats,
                 probe_log, warnings, result>>
collectVars == <<obj, out, collected>>
extVars == <<info, vcodec, acodec, media_url, ext>>

NoResult == [t |-> "none"]

(***************************************************************************)
(* JSON values                                                             *)
(***************************************************************************)
Str(s) == [t |-> "str", s |-> s]
Null == [t |-> "null"]
NumV(n) == [t |-> "num", n |-> n]
Num == NumV(1)
Dict(items) == [t |-> "dict", items |-> items]
List(items) == [t |-> "list", items |-> items]
Entry(k, v) == [k |-> k, v |-> v]

\* Python truthiness of a JSON value (`x or y`): numbers of the model are non-zero
Truthy(v) ==
    CASE v.t = "str" -> v.s # <<>>
      [] v.t = "dict" -> v.items # <<>>
      [] v.t = "list" -> v.items # <<>>
      [] v.t = "num" -> TRUE
      [] OTHER -> FALSE

RECURSIVE DictGetFrom(_, _, _)
DictGetFrom(items, k, i) ==
    IF i > Len(items) THEN Null
    ELSE IF items[i].k = k THEN items[i].v
    ELSE DictGetFrom(items, k, i + 1)

\* d.get(k): the value at key k, None when the key is missing
DictGet(d, k) == DictGetFrom(d.items, k, 1)

(***************************************************************************)
(* Strings                                                                 *)
(***************************************************************************)
Digits == <<"0", "1", "2", "3", "4", "5", "6", "7", "8", "9">>

RECURSIVE IntStr(_)
\* str(i) of a non-negative integer
IntStr(n) ==
    IF n < 10 THEN <<Digits[n + 1]>>
    ELSE IntStr(n \div 10) \o <<Digits[(n % 10) + 1]>>

RECURSIVE Replace(_, _, _)
\* s.replace(old, new) for a one-character `old`; `new` is a string
Replace(s, old, new) ==
    IF s = <<>> THEN <<>>
    ELSE (IF Head(s) = old THEN new ELSE <<Head(s)>>) \o Replace(Tail(s), old, new)

\* str.lower(), symbol by symbol: the upper-case atoms of the model
LowerSym(c) ==
    CASE c = "MP4" -> "mp4"
      [] c = "PNG" -> "png"
      [] c = "JPG" -> "jpg"
      [] OTHER -> c

Lower(s) == [i \in 1..Len(s) |-> LowerSym(s[i])]

RECURSIVE LStrip(_, _), RStrip(_, _)
LStrip(s, cs) == IF s # <<>> /\ Head(s) \in cs THEN LStrip(Tail(s), cs) ELSE s
RStrip(s, cs) ==
    IF s # <<>> /\ s[Len(s)] \in cs THEN RStrip(SubSeq(s, 1, Len(s) - 1), cs) ELSE s

\* str.strip()
Strip(s) == RStrip(LStrip(s, {" "}), {" "})

RECURSIVE SplitAcc(_, _, _)
SplitAcc(s, sep, cur) ==
    IF s = <<>> THEN <<cur>>
    ELSE IF Head(s) = sep THEN <<cur>> \o SplitAcc(Tail(s), sep, <<>>)
    ELSE SplitAcc(Tail(s), sep, Append(cur, Head(s)))

\* s.split(sep) for a one-character separator: ''.split(',') is ['']
Split(s, sep) == SplitAcc(s, sep, <<>>)

\* s.endswith(suffix)
EndsWith(s, suffix) ==
    Len(s) >= Len(suffix) /\ SubSeq(s, Len(s) - Len(suffix) + 1, Len(s)) = suffix

\* the symbols that are no letters or digits
SpecialSyms == {".", "_", "[", "]", " ", "\"", "'", "<", ">", "://", "/", "?", ","}

\* the characters [^\s"'<>] of _URL_RE excludes
UrlForbidden == {" ", "\"", "'", "<", ">"}

\* _URL_RE.match(s): r'https?://[^\s"\'<>]+' anchored at the start of s
UrlMatch(s) ==
    /\ Len(s) >= 3
    /\ s[1] = "http"
    /\ \/ s[2] = "://" /\ s[3] \notin UrlForbidden
       \/ Len(s) >= 4 /\ s[2] = "s" /\ s[3] = "://" /\ s[4] \notin UrlForbidden

(***************************************************************************)
(* _collect_urls                                                           *)
(***************************************************************************)
DictKeyPathMutAlwaysDot(prefix, k) == prefix \o <<".">> \o k

\* line 18: nk = f"{prefix}.{k}" if prefix else k
DictKeyPath(prefix, k) ==
    IF prefix # <<>> THEN prefix \o <<".">> \o k ELSE k

\* line 22: nk = f"{prefix}[{i}]" if prefix else str(i)
ListKeyPath(prefix, i) ==
    IF prefix # <<>> THEN prefix \o <<"[">> \o IntStr(i) \o <<"]">> ELSE IntStr(i)

RECURSIVE CollectUrls(_, _, _), CollectItems(_, _, _, _)
\* the loops of lines 17-19 and 21-23, from item i on
CollectItems(o, prefix, acc, i) ==
    IF i > Len(o.items) THEN acc
    ELSE LET nk == IF o.t = "dict" THEN DictKeyPath(prefix, o.items[i].k)
                   ELSE ListKeyPath(prefix, i - 1)
             v == IF o.t = "dict" THEN o.items[i].v ELSE o.items[i]
         IN CollectItems(o, prefix, CollectUrls(v, nk, acc), i + 1)

\* _collect_urls(obj, prefix, out): the value of `out` after the call
CollectUrls(o, prefix, acc) ==
    IF o.t \in {"dict", "list"} THEN CollectItems(o, prefix, acc, 1)
    ELSE IF o.t = "str" /\ UrlMatch(o.s) THEN Append(acc, <<prefix, o.s>>)
    ELSE acc

(***************************************************************************)
(* _is_image_url                                                           *)
(***************************************************************************)
ImgExts == {<<".", e>> : e \in {"jpg", "jpeg", "png", "gif", "bmp", "webp", "tiff", "svg", "ico"}}
NonImgExts == {<<".", e>> : e \in {"mp4", "mkv", "webm", "mp3", "aac", "flac", "wav", "3gp", "mov"}}

\* _is_image_url(url), url a JSON value
IsImageUrl(v) ==
    /\ v.t = "str"
    /\ \E e \in ImgExts : EndsWith(Lower(v.s), e)
    /\ ~\E e \in NonImgExts : EndsWith(Lower(v.s), e)

(***************************************************************************)
(* _choose_extension_from_ffprobe                                          *)
(*                                                                         *)
(* Probe output is a record [has_streams, streams, format]; format is Null *)
(* or [format_name, duration, size], format_name Null or Str(s).           *)
(***************************************************************************)
UnknownVideo == <<"unknown", "_", "video">>
KnownExtensions == {<<"mp4">>, <<"webm">>, <<"mp3">>, <<"png">>, <<"jpg">>}

RECURSIVE IndexOfFirst(_, _, _), IndexOfLast(_, _, _)
\* the first position of c in s at or after i, 0 when there is none
IndexOfFirst(s, c, i) ==
    IF i > Len(s) THEN 0 ELSE IF s[i] = c THEN i ELSE IndexOfFirst(s, c, i + 1)
\* the last position of c in s at or before i, 0 when there is none
IndexOfLast(s, c, i) ==
    IF i < 1 THEN 0 ELSE IF s[i] = c THEN i ELSE IndexOfLast(s, c, i - 1)

\* determine_ext(url) of yt_dlp.utils, with its default 'unknown_video':
\* the text after the last "." of the URL up to its "?", when that is
\* alphanumeric or a known extension followed by "/"
DetermineExt(url) ==
    IF IndexOfFirst(url, ".", 1) = 0 THEN UnknownVideo
    ELSE LET q == IndexOfFirst(url, "?", 1)
             path == IF q = 0 THEN url ELSE SubSeq(url, 1, q - 1)
             d == IndexOfLast(path, ".", Len(path))
             guess == SubSeq(path, d + 1, Len(path))
         IN IF guess # <<>> /\ \A i \in 1..Len(guess) : guess[i] \notin SpecialSyms
            THEN guess
            ELSE IF RStrip(guess, {"/"}) \in KnownExtensions THEN RStrip(guess, {"/"})
            ELSE UnknownVideo

\* line 79: (info.get('format') or {}).get('format_name') or ''
FormatName(i) ==
    IF i.format = Null \/ i.format.format_name = Null THEN <<>>
    ELSE i.format.format_name.s

\* line 80: [c.strip().lower() for c in fmt.split(',') if c.strip()]
Candidates(fmt) ==
    LET parts == SelectSeq(Split(fmt, ","), LAMBDA c : Strip(c) # <<>>)
    IN [j \in 1..Len(parts) |-> Lower(Strip(parts[j]))]

Undesired == {<<"mov">>, <<"m4a">>, <<"3gp">>, <<"3g2">>, <<"mj2">>}

InSeq(x, q) == \E j \in 1..Len(q) : q[j] = x

ChooseExtensionMutNoFilter(i, vc, ac, url) ==
    LET candidates == Candidates(FormatName(i))
        has_video == vc # <<"none">>
        has_audio == ac # <<"none">>
        url_ext == DetermineExt(url)
    IN IF candidates # <<>> THEN candidates[1]
       ELSE IF url_ext # <<>> /\ url_ext # <<"bin">> THEN url_ext
       ELSE IF has_video THEN <<"mp4">>
       ELSE IF has_audio THEN <<"mp3">>
       ELSE <<"bin">>

\* _choose_extension_from_ffprobe(info, vcodec, acodec, media_url)
ChooseExtension(i, vc, ac, url) ==
    LET candidates == Candidates(FormatName(i))
        has_video == vc # <<"none">>
        has_audio == ac # <<"none">>
        filtered == SelectSeq(candidates, LAMBDA c : c \notin Undesired)
        url_ext == DetermineExt(url)
    IN IF has_video /\ has_audio /\ candidates # <<>>
       THEN (IF InSeq(<<"mp4">>, candidates) THEN <<"mp4">>
             ELSE IF filtered # <<>> THEN filtered[1]
             ELSE candidates[1])
       ELSE IF candidates # <<>> THEN candidates[1]
       ELSE IF url_ext # <<>> /\ url_ext # <<"bin">> THEN url_ext
       ELSE IF has_video THEN <<"mp4">>
       ELSE IF has_audio THEN <<"mp3">>
       ELSE <<"bin">>

(***************************************************************************)
(* Inputs of _collect_urls: JSON trees                                     *)
(***************************************************************************)
MaxDepth == 2

U1 == <<"http", "://", "h", "/", "v">>
U2 == <<"http", "s", "://", "h", " ", "x">>    \* a URL followed by other text
NotUrlNoBody == <<"http", "://">>
NotUrlLate == <<"x", "http", "://", "h">>
NotUrlSpace == <<"http", "://", " ", "h">>
Plain == <<"x">>

LeavesAll == {Str(U1), Str(U2), Str(NotUrlNoBody), Str(NotUrlLate),
              Str(NotUrlSpace), Str(Plain), Str(<<>>), Num, Null}
LeavesIn == {Str(U1), Str(Plain)}

TreeKeys == {<<"a">>, <<"b">>, <<"a", ".", "b">>, <<"a", "[", "0", "]">>, <<>>}

\* a JSON object holds a key once
KeyPairs == {kk \in TreeKeys \X TreeKeys : kk[1] # kk[2]}

\* the values without nesting, and the containers of leaves
Flat ==
    LeavesAll
    \cup {List(<<>>)}
    \cup {List(<<l>>) : l \in LeavesAll}
    \cup {List(<<l1, l2>>) : l1 \in LeavesIn, l2 \in LeavesIn}
    \cup {Dict(<<>>)}
    \cup {Dict(<<Entry(k, l)>>) : k \in TreeKeys, l \in LeavesIn}
    \cup {Dict(<<Entry(kk[1], l1), Entry(kk[2], l2)>>) :
            kk \in KeyPairs, l1 \in LeavesIn, l2 \in LeavesIn}

\* the ways of putting a value c into a new container, beside at most one URL leaf
Wrappers ==
    {[shape |-> sh, k1 |-> <<>>, k2 |-> <<>>] : sh \in {"L1", "L12", "L21"}}
    \cup {[shape |-> "D1", k1 |-> k, k2 |-> <<>>] : k \in TreeKeys}
    \cup {[shape |-> sh, k1 |-> kk[1], k2 |-> kk[2]] : sh \in {"D12", "D21"}, kk \in KeyPairs}

Wrap(c, w) ==
    CASE w.shape = "L1" -> List(<<c>>)
      [] w.shape = "L12" -> List(<<c, Str(U1)>>)
      [] w.shape = "L21" -> List(<<Str(U1), c>>)
      [] w.shape = "D1" -> Dict(<<Entry(w.k1, c)>>)
      [] w.shape = "D12" -> Dict(<<Entry(w.k1, c), Entry(w.k2, Str(U1))>>)
      [] w.shape = "D21" -> Dict(<<Entry(w.k1, Str(U1)), Entry(w.k2, c)>>)

RECURSIVE Build(_, _)
\* the value c wrapped by the wrappers ws, innermost first
Build(c, ws) == IF ws = <<>> THEN c ELSE Build(Wrap(c, Head(ws)), Tail(ws))

\* at most MaxDepth - 1 wrappers around a flat value: nesting depth <= MaxDepth
Wrappings == UNION {[1..n -> Wrappers] : n \in 0..(MaxDepth - 1)}

(***************************************************************************)
(* _collect_urls as a specification of its own                             *)
(***************************************************************************)
InitCollect ==
    /\ \E c \in Flat, ws \in Wrappings : obj = Build(c, ws)
    /\ out = <<>>
    /\ collected = FALSE
    /\ pc = "idle" /\ json_data = Null /\ data = Null /\ url_list = <<>>
    /\ idx = 1 /\ processed_urls = {} /\ formats = <<>> /\ probe_log = <<>>
    /\ warnings = <<>> /\ result = NoResult
    /\ info = Null /\ vcodec = <<"none">> /\ acodec = <<"none">> /\ media_url = <<>>
    /\ ext = NoResult

\* self._collect_urls(obj, '', out)
CallCollectUrls ==
    /\ ~collected
    /\ out' = CollectUrls(obj, <<>>, out)
    /\ collected' = TRUE
    /\ UNCHANGED <<obj, extractVars, extVars>>

NextCollect == CallCollectUrls

SpecCollect == InitCollect /\ [][NextCollect]_vars

(***************************************************************************)
(* _real_extract                                                           *)
(***************************************************************************)
Info(has_streams, streams, format) ==
    [has_streams |-> has_streams, streams |-> streams, format |-> format]
Format(format_name, duration, size) ==
    [t |-> "format", format_name |-> format_name, duration |-> duration, size |-> size]
Stream(codec_type, codec_name, width, height) ==
    [codec_type |-> codec_type, codec_name |-> codec_name,
     width |-> width, height |-> height]

\* the numerals of the model
Numerals == {<<"12">>, <<"640">>, <<"360">>, <<"9000">>}
Value(s) == CASE s = <<"12">> -> 12 [] s = <<"640">> -> 640
              [] s = <<"360">> -> 360 [] s = <<"9000">> -> 9000

\* int_or_none(v), float_or_none(v) of yt_dlp.utils on the values of the
\* model: a number, or a string that is a numeral, else None
NumOrNone(v) ==
    IF v.t = "num" THEN v
    ELSE IF v.t = "str" /\ v.s \in Numerals THEN NumV(Value(v.s))
    ELSE Null

RECURSIVE ScanStreams(_, _, _)
\* lines 141-150: the loop over info['streams'], from stream i on
ScanStreams(streams, i, acc) ==
    IF i > Len(streams) THEN acc
    ELSE LET st == streams[i]
         IN ScanStreams(streams, i + 1,
              IF st.codec_type = "video"
              THEN [acc EXCEPT !.vcodec = IF Truthy(st.codec_name)
                                           THEN st.codec_name.s ELSE acc.vcodec,
                               !.width = NumOrNone(st.width),
                               !.height = NumOrNone(st.height)]
              ELSE IF st.codec_type = "audio"
              THEN [acc EXCEPT !.acodec = IF Truthy(st.codec_name)
                                           THEN st.codec_name.s ELSE acc.acodec]
              ELSE acc)

ResultPath == <<"result">>
HdPath == <<"template", "_", "processedHdURL">>

\* lines 152-153: two assignments to `quality`, the second overwrites the first
Quality(key_path) ==
    LET q1 == IF key_path = ResultPath THEN 1 ELSE 0
        q2 == IF key_path = HdPath THEN 1 ELSE 0
    IN q2

FormatIdMutDropIndex(key_path) ==
    SelectSeq(Replace(key_path, ".", <<"_">>),
              LAMBDA c : c \notin {"[", "]", "0", "1", "2"})

\* line 159: key_path.replace('.', '_').replace('[', '_').replace(']', '')
FormatId(key_path) ==
    Replace(Replace(Replace(key_path, ".", <<"_">>), "[", <<"_">>), "]", <<>>)

\* lines 141-169: the format built from a probe result that has streams
MakeFormat(key_path, url, i) ==
    LET c == ScanStreams(i.streams, 1,
                 [vcodec |-> <<"none">>, acodec |-> <<"none">>,
                  width |-> Null, height |-> Null])
    IN [format_id |-> FormatId(key_path),
        url |-> url,
        ext |-> ChooseExtension(i, c.vcodec, c.acodec, url),
        quality |-> Quality(key_path),
        vcodec |-> c.vcodec,
        acodec |-> c.acodec,
        width |-> c.width,
        height |-> c.height,
        duration |-> IF i.format = Null THEN Null ELSE NumOrNone(i.format.duration),
        filesize |-> IF i.format = Null THEN Null ELSE NumOrNone(i.format.size)]

AlreadyProcessedMutNever(url, processed) == FALSE

\* line 132: media_url in processed_urls
AlreadyProcessed(url, processed) == url \in processed

NoFormatsMutNever(fs) == FALSE

\* line 171: not formats
NoFormats(fs) == fs = <<>>

AddThumbMutNoDedup(acc, thumb_id, thumb_url) ==
    IF Truthy(thumb_url) /\ IsImageUrl(thumb_url)
    THEN [thumbnails |-> Append(acc.thumbnails, [id |-> thumb_id, url |-> thumb_url.s]),
          thumb_urls |-> acc.thumb_urls \cup {thumb_url.s}]
    ELSE acc

\* lines 178-181: add_thumb(thumb_id, thumb_url), thumb_url a JSON value
AddThumb(acc, thumb_id, thumb_url) ==
    IF Truthy(thumb_url) /\ IsImageUrl(thumb_url) /\ thumb_url.s \notin acc.thumb_urls
    THEN [thumbnails |-> Append(acc.thumbnails, [id |-> thumb_id, url |-> thumb_url.s]),
          thumb_urls |-> acc.thumb_urls \cup {thumb_url.s}]
    ELSE acc

RECURSIVE ThumbsFrom(_, _, _)
\* lines 183-185: the loop over url_list, from entry i on
ThumbsFrom(ul, i, acc) ==
    IF i > Len(ul) THEN acc
    ELSE ThumbsFrom(ul, i + 1,
           IF IsImageUrl(Str(ul[i][2]))
           THEN AddThumb(acc, Replace(ul[i][1], ".", <<"_">>), Str(ul[i][2]))
           ELSE acc)

\* lines 175-187
Thumbnails(d, ul) ==
    AddThumb(ThumbsFrom(ul, 1, [thumbnails |-> <<>>, thumb_urls |-> {}]),
             <<"result", "_", "cover">>, DictGet(d, <<"resultCover">>)).thumbnails

\* x or y
Or(x, y) == IF Truthy(x) THEN x ELSE y

\* data.get(k) or {}
SubDict(d, k) == Or(DictGet(d, k), Dict(<<>>))

VideoId == Str(<<"vid">>)

TitleMutCommandFirst(d) ==
    Or(DictGet(d, <<"name">>),
    Or(DictGet(SubDict(d, <<"template">>), <<"command">>),
    Or(DictGet(SubDict(d, <<"template">>), <<"webCommand">>),
    Or(DictGet(SubDict(d, <<"rap">>), <<"title">>),
    Or(DictGet(SubDict(d, <<"user">>), <<"nickname">>),
       VideoId)))))

\* lines 190-198
Title(d) ==
    Or(DictGet(d, <<"name">>),
    Or(DictGet(SubDict(d, <<"template">>), <<"webCommand">>),
    Or(DictGet(SubDict(d, <<"template">>), <<"command">>),
    Or(DictGet(SubDict(d, <<"rap">>), <<"title">>),
    Or(DictGet(SubDict(d, <<"user">>), <<"nickname">>),
       VideoId)))))

\* ---- the API responses of the model ----
MaxEntries == 2

V1 == <<"http", "://", "h", "/", "v", ".", "mp4">>
V2 == <<"http", "s", "://", "h", "/", "w">>
P1 == <<"http", "://", "h", "/", "c", ".", "png">>
P2 == <<"http", "s", "://", "h", "/", "c", ".", "PNG">>

\* entries of `data` that hold URLs
MediaPool ==
    { Entry(<<"result">>, Str(V1)),
      Entry(HdPath, Str(V1)),
      Entry(HdPath, Str(V2)),
      Entry(<<"template">>, Dict(<<Entry(<<"processedHdURL">>, Str(V2))>>)),
      Entry(<<"a">>, List(<<Str(V1), Str(P1)>>)),
      Entry(<<"a">>, Dict(<<Entry(<<"b">>, Str(V2))>>)),
      Entry(<<"a", "_", "0">>, Str(V2)),
      Entry(<<"a", ".", "b">>, Str(P1)),
      Entry(<<"thumb">>, Str(P2)),
      Entry(<<"cover">>, List(<<Str(P1), Str(P1)>>)),
      Entry(<<"resultCover">>, Str(P1)),
      Entry(<<"resultCover">>, Str(<<"c", ".", "jpg">>)) }

MediaSeqs ==
    {q \in UNION {[1..n -> MediaPool] : n \in 0..MaxEntries} :
        \A i, j \in 1..Len(q) : i # j => q[i].k # q[j].k}

\* the fields the title is chosen from: each missing, null, empty or set
NameChoices == {<<>>} \cup {<<Entry(<<"name">>, v)>> : v \in {Null, Str(<<>>), Str(<<"N">>)}}
TemplateChoices ==
    {<<>>} \cup {<<Entry(<<"template">>, v)>> : v \in
        {Null, Dict(<<>>),
         Dict(<<Entry(<<"webCommand">>, Str(<<"W">>))>>),
         Dict(<<Entry(<<"command">>, Str(<<"C">>))>>),
         Dict(<<Entry(<<"webCommand">>, Str(<<>>)), Entry(<<"command">>, Str(<<"C">>))>>),
         Dict(<<Entry(<<"webCommand">>, Str(<<"W">>)), Entry(<<"command">>, Str(<<"C">>))>>)}}
RapChoices ==
    {<<>>} \cup {<<Entry(<<"rap">>, v)>> : v \in
        {Null, Dict(<<Entry(<<"title">>, Str(<<"R">>))>>),
         Dict(<<Entry(<<"lyrics">>, Str(<<"L">>))>>)}}
UserChoices ==
    {<<>>} \cup {<<Entry(<<"user">>, v)>> : v \in
        {Dict(<<Entry(<<"nickname">>, Str(<<"K">>))>>),
         Dict(<<Entry(<<"nickname">>, Null)>>)}}

\* probe results that have streams
OkInfos ==
    { Info(TRUE,
           <<Stream("video", Str(<<"h264">>), NumV(640), NumV(360)),
             Stream("audio", Str(<<"aac">>), Null, Null)>>,
           Format(Str(<<"mov", ",", "mp4">>), Str(<<"12">>), Str(<<"9000">>))),
      Info(TRUE, <<Stream("audio", Null, Null, Null)>>, Null) }

\* a probe result that parses and has no streams
NoStreamsInfo == Info(FALSE, <<>>, Null)

Init ==
    /\ pc = "start"
    /\ \/ json_data = Null
       \/ \E q \in MediaSeqs : json_data = Dict(q)
       \/ \E n \in NameChoices, t \in TemplateChoices, r \in RapChoices, u \in UserChoices :
             json_data = Dict(<<Entry(<<"result">>, Str(V1))>> \o n \o t \o r \o u)
    /\ data = Null
    /\ url_list = <<>>
    /\ idx = 1
    /\ processed_urls = {}
    /\ formats = <<>>
    /\ probe_log = <<>>
    /\ warnings = <<>>
    /\ result = NoResult
    /\ obj = Null /\ out = <<>> /\ collected = FALSE
    /\ info = Null /\ vcodec = <<"none">> /\ acodec = <<"none">> /\ media_url = <<>>
    /\ ext = NoResult

\* lines 120-128: fetch the response, take `data`, harvest the URLs
Fetch ==
    /\ pc = "start"
    /\ data' = Or(json_data, Dict(<<>>))
    /\ url_list' = CollectUrls(data', <<>>, <<>>)
    /\ idx' = 1
    /\ processed_urls' = {}
    /\ formats' = <<>>
    /\ pc' = "loop"
    /\ UNCHANGED <<json_data, probe_log, warnings, result, collectVars, extVars>>

InLoop == pc = "loop" /\ idx <= Len(url_list)

\* lines 132-133: a URL seen before is skipped
SkipProcessed ==
    /\ InLoop
    /\ AlreadyProcessed(url_list[idx][2], processed_urls)
    /\ idx' = idx + 1
    /\ UNCHANGED <<pc, json_data, data, url_list, processed_urls, formats,
                   probe_log, warnings, result, collectVars, extVars>>

\* one iteration that probes: lines 134-139, with what the probe did
Probed(outcome, warned, fs) ==
    /\ InLoop
    /\ ~AlreadyProcessed(url_list[idx][2], processed_urls)
    /\ processed_urls' = processed_urls \cup {url_list[idx][2]}
    /\ probe_log' = Append(probe_log, [url |-> url_list[idx][2], outcome |-> outcome])
    /\ warnings' = IF warned THEN Append(warnings, url_list[idx][2]) ELSE warnings
    /\ formats' = fs
    /\ idx' = idx + 1
    /\ UNCHANGED <<pc, json_data, data, url_list, result, collectVars, extVars>>

\* the probe returns JSON with streams: lines 141-169
ProbeOk ==
    \E i \in OkInfos :
        Probed("ok", FALSE,
               Append(formats, MakeFormat(url_list[idx][1], url_list[idx][2], i)))

\* the probing command exits non-zero: lines 41-52, 58, 138-139
ProbeCalledProcessError == Probed("exit", TRUE, formats)

ProbeExceptionMutSilent == Probed("exception", FALSE, formats)

\* the command cannot be run, or its output is no JSON: lines 53-58, 138-139
ProbeException == Probed("exception", TRUE, formats)

\* the probe returns JSON that is empty or has no streams: lines 40, 138-139
ProbeNoStreams ==
    /\ ~NoStreamsInfo.has_streams
    /\ Probed("nostreams", FALSE, formats)

AtEnd == pc = "loop" /\ idx > Len(url_list)

\* lines 171-172
RaiseNoFormats ==
    /\ AtEnd
    /\ NoFormats(formats)
    /\ pc' = "raised"
    /\ UNCHANGED <<json_data, data, url_list, idx, processed_urls, formats,
                   probe_log, warnings, result, collectVars, extVars>>

\* lines 174-208
Return ==
    /\ AtEnd
    /\ ~NoFormats(formats)
    /\ result' = [t |-> "info",
                  id |-> VideoId,
                  title |-> Title(data),
                  formats |-> formats,
                  thumbnails |-> Thumbnails(data, url_list),
                  description |-> Or(DictGet(data, <<"description">>),
                                     DictGet(SubDict(data, <<"rap">>), <<"lyrics">>)),
                  duration |-> NumOrNone(DictGet(data, <<"videoDuration">>)),
                  uploader |-> DictGet(SubDict(data, <<"user">>), <<"nickname">>)]
    /\ pc' = "returned"
    /\ UNCHANGED <<json_data, data, url_list, idx, processed_urls, formats,
                   probe_log, warnings, collectVars, extVars>>

Next ==
    \/ Fetch
    \/ SkipProcessed
    \/ ProbeOk
    \/ ProbeCalledProcessError
    \/ ProbeException
    \/ ProbeNoStreams
    \/ RaiseNoFormats
    \/ Return

Spec == Init /\ [][Next]_vars

RECURSIVE KeysOf(_)
\* every dict key of the tree
KeysOf(v) ==
    IF v.t = "dict"
    THEN {v.items[i].k : i \in 1..Len(v.items)}
         \cup UNION {KeysOf(v.items[i].v) : i \in 1..Len(v.items)}
    ELSE IF v.t = "list" THEN UNION {KeysOf(v.items[i]) : i \in 1..Len(v.items)}
    ELSE {}

HasSym(s, syms) == \E i \in 1..Len(s) : s[i] \in syms

(***************************************************************************)
(* What _real_extract is to do                                             *)
(***************************************************************************)
Done == pc \in {"raised", "returned"}

\* the harvested URLs, and the probed ones, in order
HarvestedUrls == [i \in 1..Len(url_list) |-> url_list[i][2]]
ProbedUrls == [i \in 1..Len(probe_log) |-> probe_log[i].url]

\* the members of q in order of first occurrence
DistinctInOrder(q) ==
    LET first == SelectSeq([i \in 1..Len(q) |-> i],
                           LAMBDA i : \A j \in 1..(i - 1) : q[j] # q[i])
    IN [n \in 1..Len(first) |-> q[first[n]]]

\* the key path of the first occurrence of a harvested URL
FirstKeyPath(u) ==
    url_list[CHOOSE i \in 1..Len(url_list) :
                /\ url_list[i][2] = u
                /\ \A j \in 1..(i - 1) : url_list[j][2] # u][1]

FormatsOf(u) == {i \in 1..Len(formats) : formats[i].url = u}

\* C1: when `data` holds at the top-level key `result` a URL and a format is
\* returned for that URL, the format has quality 1.
C1_ResultQuality ==
    pc = "returned" =>
        LET r == DictGet(data, <<"result">>)
        IN r.t = "str" =>
             \A i \in 1..Len(result.formats) :
                 result.formats[i].url = r.s => result.formats[i].quality = 1

\* C2: a returned format has quality 1 when its URL is the value of `data` at
\* the key path template_processedHdURL, whatever other key paths hold the same
\* URL, and quality 0 when it is not.
C2_HdQuality ==
    pc = "returned" =>
        \A i \in 1..Len(result.formats) :
            result.formats[i].quality =
                IF DictGet(data, HdPath) = Str(result.formats[i].url) THEN 1 ELSE 0

\* C3: the probe is invoked once for each distinct harvested URL, in order of
\* first occurrence, whatever the outcomes; no two formats have the same URL.
C3_ProbeOncePerUrl ==
    /\ Len(probe_log) <= Len(DistinctInOrder(HarvestedUrls))
    /\ ProbedUrls = SubSeq(DistinctInOrder(HarvestedUrls), 1, Len(probe_log))
    /\ Done => ProbedUrls = DistinctInOrder(HarvestedUrls)
    /\ \A i, j \in 1..Len(formats) : i # j => formats[i].url # formats[j].url

\* a run has ended in which a URL occurred twice and a probe failed
C3_Witness ==
    /\ Done
    /\ Len(probe_log) >= 2
    /\ Len(url_list) > Len(probe_log)
    /\ \E i \in 1..Len(probe_log) : probe_log[i].outcome # "ok"

InWarnings(u) == \E i \in 1..Len(warnings) : warnings[i] = u

\* C4 as stated: every failed probe (non-zero exit, cannot run, output without
\* usable streams) has a warning logged for its URL and yields no format, while
\* the successful ones yield theirs and every distinct URL is still probed.
C4_AsStated ==
    /\ \A i \in 1..Len(probe_log) :
          IF probe_log[i].outcome = "ok"
          THEN FormatsOf(probe_log[i].url) # {}
          ELSE InWarnings(probe_log[i].url) /\ FormatsOf(probe_log[i].url) = {}
    /\ Done => Len(probe_log) = Cardinality({HarvestedUrls[i] : i \in 1..Len(url_list)})

\* C4 amended: a warning is logged exactly for the probes whose command exits
\* non-zero, cannot be run or prints no JSON; a probe whose output parses but is
\* empty or has no streams is skipped without a warning.  Every failed probe
\* yields no format, every successful one yields its format, and every distinct
\* URL is probed.
C4_ProbeFailure ==
    /\ \A i \in 1..Len(probe_log) :
          /\ InWarnings(probe_log[i].url) <=> probe_log[i].outcome \in {"exit", "exception"}
          /\ (FormatsOf(probe_log[i].url) # {}) <=> probe_log[i].outcome = "ok"
    /\ Len(warnings) = Cardinality({i \in 1..Len(probe_log) :
                                      probe_log[i].outcome \in {"exit", "exception"}})
    /\ Done => Len(probe_log) = Cardinality({HarvestedUrls[i] : i \in 1..Len(url_list)})

\* a failed probe with a warning was followed by a successful probe, and a
\* probe without streams passed silently
C4_Witness ==
    /\ pc = "returned"
    /\ \E i, j, k \in 1..Len(probe_log) :
          /\ i < j
          /\ probe_log[i].outcome = "exit"
          /\ probe_log[j].outcome = "ok"
          /\ probe_log[k].outcome = "nostreams"

OkUrls == LET ok == SelectSeq(probe_log, LAMBDA e : e.outcome = "ok")
          IN [i \in 1..Len(ok) |-> ok[i].url]

\* C5: the run ends raising exactly when no probe result has streams, and then
\* nothing is returned; otherwise the result's formats are non-empty, one per
\* successfully probed URL.
C5_RaiseOrReturn ==
    /\ pc = "raised" => OkUrls = <<>> /\ result = NoResult
    /\ pc = "returned" =>
          /\ OkUrls # <<>>
          /\ result.formats # <<>>
          /\ [i \in 1..Len(result.formats) |-> result.formats[i].url] = OkUrls
    /\ AtEnd => (formats = <<>> <=> OkUrls = <<>>)

\* every probe of a response with several URLs failed and the run raised
C5_Witness ==
    /\ pc = "raised"
    /\ Len(probe_log) >= 2
    /\ \E i \in 1..Len(probe_log) : probe_log[i].outcome = "nostreams"

ImageExtNames == {"jpg", "jpeg", "png", "gif", "bmp", "webp", "tiff", "svg", "ico"}

\* u ends, in any letter case, with "." and an image extension
EndsWithImageExt(u) ==
    /\ Len(u) >= 2
    /\ u[Len(u) - 1] = "."
    /\ u[Len(u)] \in ImageExtNames \cup {"PNG", "JPG"}

DotsToUnderscores(kp) == [k \in 1..Len(kp) |-> IF kp[k] = "." THEN "_" ELSE kp[k]]

RECURSIVE ValueAt(_, _)
\* the value of d at a path of keys, null when a key on the way is missing
ValueAt(d, path) ==
    IF path = <<>> THEN d
    ELSE IF d.t # "dict" \/ ~\E i \in 1..Len(d.items) : d.items[i].k = Head(path) THEN Null
    ELSE ValueAt(d.items[CHOOSE i \in 1..Len(d.items) : d.items[i].k = Head(path)].v,
                 Tail(path))

TitleFields ==
    << <<<<"name">>>>, <<<<"template">>, <<"webCommand">>>>,
       <<<<"template">>, <<"command">>>>, <<<<"rap">>, <<"title">>>>,
       <<<<"user">>, <<"nickname">>>> >>

IsSet(v) == v # Null /\ v # Str(<<>>)

\* C9: the title is the first of name, template.webCommand, template.command,
\* rap.title, user.nickname that is non-empty, and the video id when none is.
C9_Title ==
    pc = "returned" =>
        LET set == {i \in 1..Len(TitleFields) : IsSet(ValueAt(data, TitleFields[i]))}
        IN IF set = {} THEN result.title = VideoId
           ELSE result.title =
                   ValueAt(data, TitleFields[CHOOSE i \in set : \A j \in set : i <= j])

\* template.command was chosen past a missing name and an empty webCommand,
\* with later fields set
C9_Witness ==
    /\ pc = "returned"
    /\ result.title = Str(<<"C">>)
    /\ ValueAt(data, <<<<"template">>, <<"webCommand">>>>) = Str(<<>>)
    /\ IsSet(ValueAt(data, <<<<"rap">>, <<"title">>>>))
    /\ IsSet(ValueAt(data, <<<<"user">>, <<"nickname">>>>))

DistinctFormatIds ==
    \A i, j \in 1..Len(result.formats) :
        i # j => result.formats[i].format_id # result.formats[j].format_id

\* C10 as stated: no two returned formats have the same format_id, whatever
\* the dict keys of the response.
C10_AsStated == pc = "returned" => DistinctFormatIds

\* C10 amended: no two returned formats have the same format_id when no dict
\* key of the response is empty or contains ".", "_", "[" or "]".
C10_FormatIds ==
    (pc = "returned" /\ \A k \in KeysOf(data) : k # <<>> /\ ~HasSym(k, {".", "_", "[", "]"}))
        => DistinctFormatIds

\* two formats from the items of one list below a plain key
C10_Witness ==
    /\ pc = "returned"
    /\ \A k \in KeysOf(data) : k # <<>> /\ ~HasSym(k, {".", "_", "[", "]"})
    /\ \E i, j \in 1..Len(result.formats) :
          /\ i # j
          /\ HasSym(result.formats[i].format_id, {"0"})
          /\ HasSym(result.formats[j].format_id, {"1"})

(***************************************************************************)
(* _choose_extension_from_ffprobe as a specification of its own            *)
(***************************************************************************)
MaxFmtLen == 4

FmtSyms == {"mov", "mp4", "MP4", "webm", ",", " "}
FmtStrings == UNION {[1..n -> FmtSyms] : n \in 0..MaxFmtLen}

ExtUrls ==
    { <<"http", "://", "h", "/", "v", ".", "mp4">>,
      <<"http", "://", "h", "/", "v", ".", "bin">>,
      <<"http", "://", "h", "/", "v", ".", "mp4", "?", "q", ".", "x">>,
      <<"http", "://", "h", ".", "ai", "/", "v">>,
      <<"http", "://", "h", "/", "v">> }

InitExt ==
    /\ \/ info = Info(TRUE, <<>>, Null)
       \/ info = Info(TRUE, <<>>, Format(Null, Null, Null))
       \/ \E f \in FmtStrings : info = Info(TRUE, <<>>, Format(Str(f), Null, Null))
    /\ vcodec \in {<<"none">>, <<"h264">>}
    /\ acodec \in {<<"none">>, <<"aac">>}
    /\ media_url \in ExtUrls
    /\ ext = NoResult
    /\ obj = Null /\ out = <<>> /\ collected = FALSE
    /\ pc = "idle" /\ json_data = Null /\ data = Null /\ url_list = <<>>
    /\ idx = 1 /\ processed_urls = {} /\ formats = <<>> /\ probe_log = <<>>
    /\ warnings = <<>> /\ result = NoResult

\* ext = self._choose_extension_from_ffprobe(info, vcodec, acodec, media_url)
CallChooseExtension ==
    /\ ext = NoResult
    /\ ext' = Str(ChooseExtension(info, vcodec, acodec, media_url))
    /\ UNCHANGED <<info, vcodec, acodec, media_url, extractVars, collectVars>>

NextExt == CallChooseExtension

SpecExt == InitExt /\ [][NextExt]_vars

(***************************************************************************)
(* What _choose_extension_from_ffprobe is to return                        *)
(***************************************************************************)
\* the container names of a format_name: its comma-separated fields without
\* the surrounding blanks, in lower case, the blank fields left out
NamesOf(fmt) ==
    LET cuts == <<0>> \o SelectSeq([j \in 1..Len(fmt) |-> IF fmt[j] = "," THEN j ELSE 0],
                                   LAMBDA j : j # 0) \o <<Len(fmt) + 1>>
        inked(j) == {p \in (cuts[j] + 1)..(cuts[j + 1] - 1) : fmt[p] # " "}
        lo(j) == CHOOSE p \in inked(j) : \A r \in inked(j) : p <= r
        hi(j) == CHOOSE p \in inked(j) : \A r \in inked(j) : p >= r
        kept == SelectSeq([j \in 1..(Len(cuts) - 1) |-> j], LAMBDA j : inked(j) # {})
    IN [n \in 1..Len(kept) |-> Lower(SubSeq(fmt, lo(kept[n]), hi(kept[n])))]

NamesOfInfo == IF info.format = Null \/ info.format.format_name = Null THEN <<>>
               ELSE NamesOf(info.format.format_name.s)

BothStreams == vcodec # <<"none">> /\ acodec # <<"none">>

\* what follows the container names: URL-derived extension, codec default, "bin"
ExtFallback ==
    IF DetermineExt(media_url) # <<"bin">> THEN DetermineExt(media_url)
    ELSE IF vcodec # <<"none">> THEN <<"mp4">>
    ELSE IF acodec # <<"none">> THEN <<"mp3">>
    ELSE <<"bin">>

KeySeg(k) == [kind |-> "key", k |-> k, i |-> 0]
IndexSeg(i) == [kind |-> "index", k |-> <<>>, i |-> i]

RECURSIVE LeavesOf(_, _), LeavesFrom(_, _, _)
\* the leaves of v in document order, each with the keys and indices leading to it
LeavesOf(v, segs) ==
    IF v.t \in {"dict", "list"} THEN LeavesFrom(v, segs, 1)
    ELSE <<[segs |-> segs, v |-> v]>>
LeavesFrom(v, segs, i) ==
    IF i > Len(v.items) THEN <<>>
    ELSE (IF v.t = "dict"
          THEN LeavesOf(v.items[i].v, Append(segs, KeySeg(v.items[i].k)))
          ELSE LeavesOf(v.items[i], Append(segs, IndexSeg(i - 1))))
         \o LeavesFrom(v, segs, i + 1)

\* u is http:// or https:// followed by one or more characters, none of them
\* white space, a quote or an angle bracket
IsHttpUrl(u) ==
    \E m \in {1, 2} :
        /\ Len(u) >= m + 2
        /\ SubSeq(u, 1, m) \in {<<"http">>, <<"http", "s">>}
        /\ u[m + 1] = "://"
        /\ \A j \in (m + 2)..Len(u) : u[j] \notin {" ", "\"", "'", "<", ">"}

BeginsWithUrl(v) ==
    v.t = "str" /\ \E n \in 1..Len(v.s) : IsHttpUrl(SubSeq(v.s, 1, n))

UrlLeaves(v) == SelectSeq(LeavesOf(v, <<>>), LAMBDA l : BeginsWithUrl(l.v))

Front(q) == SubSeq(q, 1, Len(q) - 1)

RECURSIVE JoinedPath(_)
\* the keys joined by "." with each index appended as "[i]"
JoinedPath(segs) ==
    IF segs = <<>> THEN <<>>
    ELSE LET s == segs[Len(segs)]
         IN IF s.kind = "index"
            THEN JoinedPath(Front(segs)) \o <<"[">> \o IntStr(s.i) \o <<"]">>
            ELSE IF Len(segs) = 1 THEN s.k
            ELSE JoinedPath(Front(segs)) \o <<".">> \o s.k

RECURSIVE PathAsBuilt(_)
\* as JoinedPath, but the "." and the brackets are written only after a
\* non-empty path: below an empty path a key stands alone and an index is bare
PathAsBuilt(segs) ==
    IF segs = <<>> THEN <<>>
    ELSE LET s == segs[Len(segs)]
             p == PathAsBuilt(Front(segs))
         IN IF s.kind = "index"
            THEN (IF p = <<>> THEN IntStr(s.i) ELSE p \o <<"[">> \o IntStr(s.i) \o <<"]">>)
            ELSE (IF p = <<>> THEN s.k ELSE p \o <<".">> \o s.k)

DistinctPaths(q) == \A i, j \in 1..Len(q) : i # j => q[i][1] # q[j][1]

\* C7 as stated: after the call, `out` holds one (key path, string) tuple per
\* string leaf that begins with an http(s) URL, in document order, the path
\* being the keys joined by "." with each index appended as "[i]", and no two
\* tuples have the same key path.
C7_AsStated ==
    collected =>
        /\ out = [i \in 1..Len(UrlLeaves(obj)) |->
                    <<JoinedPath(UrlLeaves(obj)[i].segs), UrlLeaves(obj)[i].v.s>>]
        /\ DistinctPaths(out)

\* C7 amended: one tuple per string leaf that begins with an http(s) URL, in
\* document order; the "." and the brackets of the key path are written only
\* after a non-empty path; the key paths are pairwise distinct when no dict
\* key of the tree is empty or contains "." or "[".
C7_CollectUrls ==
    collected =>
        /\ out = [i \in 1..Len(UrlLeaves(obj)) |->
                    <<PathAsBuilt(UrlLeaves(obj)[i].segs), UrlLeaves(obj)[i].v.s>>]
        /\ (\A k \in KeysOf(obj) : k # <<>> /\ ~HasSym(k, {".", "["}))
               => DistinctPaths(out)

\* a nested tree with plain keys was harvested: a URL below a list below a dict
\* next to a second URL
C7_Witness ==
    /\ collected
    /\ Len(out) >= 2
    /\ KeysOf(obj) # {}
    /\ \A k \in KeysOf(obj) : k # <<>> /\ ~HasSym(k, {".", "["})
    /\ \E i \in 1..Len(out) : HasSym(out[i][1], {"["}) /\ HasSym(out[i][1], {"a", "b"})

====
